---------------------------- MODULE Spec2Model ----------------------------
(***************************************************************************)
(* Model of PADMapp.py, the PADM DIC risk predictor (a Streamlit script).  *)
(*                                                                         *)
(* Units.  Lab values are kept in tenths (PT = 12.0 s is 120), the step    *)
(* of the number_input widgets.  Probabilities are kept in thousandths     *)
(* (0.222 is 222, 0.64 is 640), so that both cut points are exact.         *)
(*                                                                         *)
(* Optional values (Python's None) are sequences of length 0 or 1.         *)
(***************************************************************************)
EXTENDS Integers, Sequences, FiniteSets

VARIABLES
    session_state,  \* st.session_state: a dict, empty before the first run
    widgets,        \* the values held by the four number_input widgets
    model_cache,    \* st.cache_resource entry of load_model
    buttons,        \* what st.button returned in the latest run
    model_call,     \* predict_proba's input and outcome in the latest run
    display,        \* what the latest run rendered on the page
    call,           \* FnSpec: the function applied and its argument
    result          \* FnSpec: what the function did

vars == <<session_state, widgets, model_cache, buttons, model_call, display,
          call, result>>

appVars == <<session_state, widgets, model_cache, buttons, model_call, display>>

fnVars == <<call, result>>

None == <<>>

Some(x) == <<x>>

-----------------------------------------------------------------------------
(* Bounds of the model *)

\* How far outside [0,1] (in thousandths) FnSpec draws probabilities.
ProbaMargin == 10

\* How far around each normal-range bound (in tenths) FnSpec draws values.
ValueMargin == 1

\* How far around each cut point (in thousandths) the model's answers go.
ProbaNear == 1

-----------------------------------------------------------------------------
(* Static tables and pure functions *)

Params == <<"PT", "APTT", "D-Dimer", "MPV">>

ParamSet == {Params[i] : i \in 1..Len(Params)}

\* The empty dict {}.
EmptyDict == [k \in {} |-> 0]

thresholds == <<222, 640>>

get_risk_level_LowInclusive(probability) ==
    IF probability <= thresholds[1] THEN <<"Low Risk", "risk-low", 0>>
    ELSE IF probability <= thresholds[2] THEN <<"Medium Risk", "risk-medium", 1>>
    ELSE <<"High Risk", "risk-high", 2>>

get_risk_level(probability) ==
    IF probability < thresholds[1] THEN <<"Low Risk", "risk-low", 0>>
    ELSE IF probability <= thresholds[2] THEN <<"Medium Risk", "risk-medium", 1>>
    ELSE <<"High Risk", "risk-high", 2>>

create_risk_gauge(probability) ==
    LET Min(a, b) == IF a < b THEN a ELSE b
        Max(a, b) == IF a > b THEN a ELSE b
    IN  [low_width    |-> Min(222, probability),
         medium_width |-> Min(640 - 222, Max(0, probability - 222)),
         high_width   |-> Max(0, probability - 640),
         score        |-> probability]

recommendations ==
    [r \in {"Low Risk", "Medium Risk", "High Risk"} |->
        CASE r = "Low Risk" ->
               [title |-> "Low Risk Clinical Recommendations",
                color |-> "#28a745",
                recommendations |->
                    << "**Continue routine clinical monitoring**" >>]
          [] r = "Medium Risk" ->
               [title |-> "Medium Risk Clinical Recommendations",
                color |-> "#ffc107",
                recommendations |->
                    << "**Increase monitoring frequency**",
                       "**Consider fibrin degradation products (FDP), antithrombin III**" >>]
          [] r = "High Risk" ->
               [title |-> "High Risk Clinical Recommendations",
                color |-> "#dc3545",
                recommendations |->
                    << "**Immediate Action: Urgent consultation required**",
                       "**STAT repeat coagulation panel, CBC, fibrinogen, renal and liver function**",
                       "**Alert senior clinician, activate rapid response team if clinical deterioration**",
                       "**Monitor for signs of microvascular thrombosis: digital ischemia, renal failure, altered mental status**" >>,
                actions |->
                    << "Monitor for Complications:",
                       "* Acute kidney injury",
                       "* ARDS",
                       "* Hepatic failure",
                       "* Cerebral ischemia" >>]]

get_clinical_recommendations_AlwaysLow(risk_level) ==
    recommendations["Low Risk"]

\* recommendations.get(risk_level, {})
get_clinical_recommendations(risk_level) ==
    IF risk_level \in DOMAIN recommendations
    THEN recommendations[risk_level]
    ELSE EmptyDict

normal_ranges ==
    [p \in ParamSet |->
        CASE p = "PT"      -> <<110, 135>>
          [] p = "APTT"    -> <<250, 350>>
          [] p = "D-Dimer" -> <<0, 5>>
          [] p = "MPV"     -> <<75, 115>>]

is_abnormal_MaxExclusive(value, normal_min, normal_max) ==
    value < normal_min \/ value >= normal_max

is_abnormal(value, normal_min, normal_max) ==
    value < normal_min \/ value > normal_max

\* One card per key of values, in the order of the dict.
create_parameter_display(values) ==
    [param \in DOMAIN values |->
        LET range == IF param \in DOMAIN normal_ranges
                     THEN normal_ranges[param] ELSE <<0, 0>>
        IN  [value       |-> values[param],
             normal_min  |-> range[1],
             normal_max  |-> range[2],
             is_abnormal |-> is_abnormal(values[param], range[1], range[2])]]

-----------------------------------------------------------------------------
(* The model artifact *)

\* load_model's body: joblib.load either yields the artifact or raises, and
\* the except branch reports the error and returns None.
load_model_body(file_ok) ==
    IF file_ok
    THEN [value |-> Some("model_info"), errors |-> {}]
    ELSE [value |-> None, errors |-> {"Error loading model"}]

\* @st.cache_resource: the body runs on a cache miss only; its return value
\* (None included) and the elements it emitted are replayed afterwards.
load_model(cache, file_ok) ==
    IF cache = None THEN load_model_body(file_ok) ELSE cache[1]

\* What calibrated_model.predict_proba may answer for one row: it raises
\* (so does a missing 'model' key), or it returns an array of class
\* probabilities, possibly of the wrong shape.
Probas ==
    {0, 750, 1000}
    \cup {thresholds[i] + d : i \in 1..2, d \in (0 - ProbaNear)..ProbaNear}

ModelOutcomes ==
    {[raises |-> TRUE, proba |-> <<>>]}
    \cup {[raises |-> FALSE, proba |-> << <<1000 - p, p>> >>] : p \in Probas}
    \cup {[raises |-> FALSE, proba |-> << <<1000>> >>]}

predict_risk_ZeroOnError(model_info, input_data, outcome) ==
    IF outcome.raises \/ Len(outcome.proba) < 1 \/ Len(outcome.proba[1]) < 2
    THEN [value |-> Some(0), errors |-> {"Prediction error"}]
    ELSE [value |-> Some(outcome.proba[1][2]), errors |-> {}]

\* predict_proba(input_data)[0, 1]: row 0, column 1 (1-based: [1][2]);
\* any exception is reported and turned into None.
predict_risk(model_info, input_data, outcome) ==
    IF outcome.raises \/ Len(outcome.proba) < 1 \/ Len(outcome.proba[1]) < 2
    THEN [value |-> None, errors |-> {"Prediction error"}]
    ELSE [value |-> Some(outcome.proba[1][2]), errors |-> {}]

-----------------------------------------------------------------------------
(* The script *)

InitSession_Reset(ss) ==
    [prediction_made |-> FALSE, input_values |-> EmptyDict]

\* The __main__ block: each key is set only when it is absent.
InitSession(ss) ==
    [prediction_made |->
        IF "prediction_made" \in DOMAIN ss THEN ss.prediction_made ELSE FALSE,
     input_values |->
        IF "input_values" \in DOMAIN ss THEN ss.input_values ELSE EmptyDict]

DemoPanel ==
    [p \in ParamSet |->
        CASE p = "PT"      -> 185
          [] p = "APTT"    -> 550
          [] p = "D-Dimer" -> 32
          [] p = "MPV"     -> 125]

\* The value= of the four number_input widgets.
DefaultPanel ==
    [p \in ParamSet |->
        CASE p = "PT"      -> 120
          [] p = "APTT"    -> 300
          [] p = "D-Dimer" -> 5
          [] p = "MPV"     -> 100]

\* The widgets' min_value and max_value.
WidgetRange ==
    [p \in ParamSet |->
        CASE p = "PT"      -> <<0, 1000>>
          [] p = "APTT"    -> <<0, 2000>>
          [] p = "D-Dimer" -> <<0, 500>>
          [] p = "MPV"     -> <<0, 200>>]

Submit_FlagOnly(ss, clicked, w) ==
    IF clicked THEN [ss EXCEPT !.prediction_made = TRUE] ELSE ss

\* if st.button("Calculate DIC Risk"): store the flag and the widget values.
Submit(ss, clicked, w) ==
    IF clicked
    THEN [ss EXCEPT !.prediction_made = TRUE,
                    !.input_values = [p \in ParamSet |-> w[p]]]
    ELSE ss

\* if st.button("Use Demo Mode"): store the flag and the fixed panel.
UseDemo(ss, clicked) ==
    IF clicked
    THEN [ss EXCEPT !.prediction_made = TRUE, !.input_values = DemoPanel]
    ELSE ss

BlankDisplay ==
    [errors      |-> {},
     demo_button |-> FALSE,
     exception   |-> None,
     result      |-> None,
     recs        |-> None,
     placeholder |-> FALSE,
     footer      |-> FALSE]

input_df_Reordered(values) ==
    << [name |-> "APTT",    values |-> <<values["APTT"]>>],
       [name |-> "PT",      values |-> <<values["PT"]>>],
       [name |-> "D-Dimer", values |-> <<values["D-Dimer"]>>],
       [name |-> "MPV",     values |-> <<values["MPV"]>>] >>

\* pd.DataFrame({...}): one row, the columns in the order written.
input_df(values) ==
    [i \in 1..Len(Params) |->
        [name |-> Params[i], values |-> <<values[Params[i]]>>]]

\* The three-way label tests of the metric card and of the band text.
MetricOf(risk_level) ==
    IF risk_level = "Low Risk" THEN "LOW"
    ELSE IF risk_level = "Medium Risk" THEN "MEDIUM"
    ELSE "HIGH"

BandOf(risk_level) ==
    IF risk_level = "Low Risk" THEN "Probability < 22.2%"
    ELSE IF risk_level = "Medium Risk" THEN "Probability 22.2% - 64.0%"
    ELSE "Probability > 64.0%"

RecsCard_NeverImmediate(risk_level, bundle) ==
    IF DOMAIN bundle = {} THEN None
    ELSE Some([title           |-> bundle.title,
               recommendations |-> bundle.recommendations,
               immediate       |-> None])

\* The recommendations card: nothing for an empty bundle; the Immediate
\* Considerations section for High Risk with an 'actions' list only.
RecsCard(risk_level, bundle) ==
    IF DOMAIN bundle = {} THEN None
    ELSE Some([title           |-> bundle.title,
               recommendations |-> bundle.recommendations,
               immediate       |->
                   IF risk_level = "High Risk" /\ "actions" \in DOMAIN bundle
                   THEN Some(bundle.actions) ELSE None])

\* The results branch of main, once the stored panel is complete.
Results(ss, model_info, outcome) ==
    LET df   == input_df(ss.input_values)
        pr   == predict_risk(model_info, df, outcome)
        mc   == Some([input |-> df, outcome |-> outcome])
    IN  IF pr.value = None
        THEN [display    |-> [BlankDisplay EXCEPT !.errors = pr.errors,
                                                  !.footer = TRUE],
              model_call |-> mc]
        ELSE
          LET probability == pr.value[1]
              risk        == get_risk_level(probability)
              risk_level  == risk[1]
          IN  [display |->
                 [BlankDisplay EXCEPT
                    !.errors = pr.errors,
                    !.result = Some(
                        [probability |-> probability,
                         risk_level  |-> risk_level,
                         risk_class  |-> risk[2],
                         risk_idx    |-> risk[3],
                         metric      |-> MetricOf(risk_level),
                         band        |-> BandOf(risk_level),
                         gauge       |-> create_risk_gauge(probability),
                         params      |-> create_parameter_display(ss.input_values)]),
                    !.recs = RecsCard(risk_level,
                                      get_clinical_recommendations(risk_level)),
                    !.footer = TRUE],
               model_call |-> mc]

\* One run of the script: the __main__ block, then main().
main(ss0, w, calc, demo, loaded, outcome) ==
    LET ss1 == Submit(InitSession(ss0), calc, w)
    IN  IF loaded.value = None
        THEN \* the demo branch returns before anything else is rendered
             [session_state |-> UseDemo(ss1, demo),
              display       |->
                  [BlankDisplay EXCEPT
                     !.errors = loaded.errors
                                \cup {"Failed to load the prediction model"},
                     !.demo_button = TRUE],
              model_call    |-> None]
        ELSE IF ss1.prediction_made
        THEN IF ParamSet \subseteq DOMAIN ss1.input_values
             THEN LET r == Results(ss1, loaded.value[1], outcome)
                  IN  [session_state |-> ss1,
                       display       |-> r.display,
                       model_call    |-> r.model_call]
             ELSE [session_state |-> ss1,
                   display       |-> [BlankDisplay EXCEPT
                                         !.exception = Some("KeyError")],
                   model_call    |-> None]
        ELSE [session_state |-> ss1,
              display       |-> [BlankDisplay EXCEPT !.placeholder = TRUE,
                                                     !.footer = TRUE],
              model_call    |-> None]

-----------------------------------------------------------------------------
(* The session: one action per user interaction, each a whole script run *)

\* The values the user types into each widget: the widget's default, the
\* demo panel's value, and for PT the upper end of its normal range.
WidgetValues ==
    [p \in ParamSet |->
        {DefaultPanel[p], DemoPanel[p]}
        \cup (IF p = "PT" THEN {normal_ranges[p][2]} ELSE {})]

Started == DOMAIN session_state # {}

\* Whether joblib.load finds a usable file: read on a cache miss only.
FileStates == IF model_cache = None THEN BOOLEAN ELSE {TRUE}

\* The model's answers in a run: read only by a run that has a model and a
\* submitted panel, and so calls predict_proba.
OutcomesOf(calc, loaded) ==
    IF loaded.value # None /\ (calc \/ InitSession(session_state).prediction_made)
    THEN ModelOutcomes
    ELSE {[raises |-> TRUE, proba |-> <<>>]}

\* A script run with the given widget values and button results.
Run(w, calc, demo) ==
    \E file_ok \in FileStates :
      LET loaded == load_model(model_cache, file_ok) IN
      \E outcome \in OutcomesOf(calc, loaded) :
        \E r \in {main(session_state, w, calc, demo, loaded, outcome)} :
            /\ session_state' = r.session_state
            /\ display' = r.display
            /\ model_call' = r.model_call
            /\ model_cache' = Some(loaded)
            /\ widgets' = w
            /\ buttons' = [calc |-> calc, demo |-> demo]
            /\ UNCHANGED fnVars

\* The browser opens the page: the first run of the session.
StartSession ==
    /\ ~Started
    /\ Run(widgets, FALSE, FALSE)

\* The user changes one input widget, which reruns the script.
EditWidget ==
    /\ Started
    /\ \E p \in ParamSet : \E v \in WidgetValues[p] \ {widgets[p]} :
          Run([widgets EXCEPT ![p] = v], FALSE, FALSE)

\* The user clicks "Calculate DIC Risk".
ClickCalculate ==
    /\ Started
    /\ Run(widgets, TRUE, FALSE)

\* The user clicks "Use Demo Mode", which only a run without model renders.
ClickDemo ==
    /\ Started
    /\ display.demo_button
    /\ Run(widgets, FALSE, TRUE)

\* A rerun without any change (the Rerun menu entry).
Rerun ==
    /\ Started
    /\ Run(widgets, FALSE, FALSE)

Init ==
    /\ session_state = EmptyDict
    /\ widgets = DefaultPanel
    /\ model_cache = None
    /\ buttons = [calc |-> FALSE, demo |-> FALSE]
    /\ model_call = None
    /\ display = BlankDisplay
    /\ call = [fn |-> "none", arg |-> 0]
    /\ result = [status |-> "pending", value |-> None]

Next ==
    \/ StartSession
    \/ EditWidget
    \/ ClickCalculate
    \/ ClickDemo
    \/ Rerun

Spec == Init /\ [][Next]_vars

\* The user keeps interacting with the page: runs keep happening.
FairSpec == Init /\ [][Next]_vars /\ WF_vars(Next)

-----------------------------------------------------------------------------
(* The pure functions on their own: FnSpec draws an argument and applies
   the function to it *)

\* Probabilities in and around [0,1].
ProbaArgs == (0 - ProbaMargin)..(1000 + ProbaMargin)

\* Per parameter: the values around both ends of its normal range that the
\* widget accepts, its default and its demo value.
ValueArgs ==
    [p \in ParamSet |->
        {v \in {normal_ranges[p][i] + d :
                    i \in 1..2, d \in (0 - ValueMargin)..ValueMargin} :
            WidgetRange[p][1] <= v /\ v <= WidgetRange[p][2]}
        \cup {DefaultPanel[p], DemoPanel[p]}]

PanelArgs ==
    {[p \in ParamSet |-> CASE p = "PT"      -> pt
                           [] p = "APTT"    -> aptt
                           [] p = "D-Dimer" -> dd
                           [] p = "MPV"     -> mpv] :
        pt \in ValueArgs["PT"], aptt \in ValueArgs["APTT"],
        dd \in ValueArgs["D-Dimer"], mpv \in ValueArgs["MPV"]}

\* The three tier labels and some values that are none of them.
LabelArgs ==
    {"Low Risk", "Medium Risk", "High Risk",
     "Low", "high risk", "Critical Risk", "risk-high", ""}

Calls ==
    {[fn |-> "get_risk_level", arg |-> p] : p \in ProbaArgs}
    \cup {[fn |-> "create_parameter_display", arg |-> v] : v \in PanelArgs}
    \cup {[fn |-> "get_clinical_recommendations", arg |-> l] : l \in LabelArgs}

Pending == result.status = "pending"

Returned(fn) == call.fn = fn /\ result.status = "returned"

Apply_get_risk_level ==
    /\ call.fn = "get_risk_level" /\ Pending
    /\ result' = [status |-> "returned", value |-> get_risk_level(call.arg)]
    /\ UNCHANGED <<call, appVars>>

Apply_create_parameter_display ==
    /\ call.fn = "create_parameter_display" /\ Pending
    /\ result' = [status |-> "returned",
                  value  |-> create_parameter_display(call.arg)]
    /\ UNCHANGED <<call, appVars>>

Apply_get_clinical_recommendations ==
    /\ call.fn = "get_clinical_recommendations" /\ Pending
    /\ result' = [status |-> "returned",
                  value  |-> get_clinical_recommendations(call.arg)]
    /\ UNCHANGED <<call, appVars>>

FnInit ==
    /\ session_state = EmptyDict
    /\ widgets = DefaultPanel
    /\ model_cache = None
    /\ buttons = [calc |-> FALSE, demo |-> FALSE]
    /\ model_call = None
    /\ display = BlankDisplay
    /\ call \in Calls
    /\ result = [status |-> "pending", value |-> None]

FnNext ==
    \/ Apply_get_risk_level
    \/ Apply_create_parameter_display
    \/ Apply_get_clinical_recommendations

FnSpec == FnInit /\ [][FnNext]_vars

-----------------------------------------------------------------------------
(* Properties of the threshold mapper (FnSpec) *)

\* C1: for every probability p in [0,1], get_risk_level(p) is exactly one
\* of the three tiers, with label, CSS class and id of the same tier: Low
\* iff p < 0.222, Medium iff 0.222 <= p <= 0.64, High iff p > 0.64.
C1_RiskTiers ==
    (Returned("get_risk_level") /\ 0 <= call.arg /\ call.arg <= 1000) =>
        LET p == call.arg
            r == result.value
        IN  /\ r \in {<<"Low Risk", "risk-low", 0>>,
                      <<"Medium Risk", "risk-medium", 1>>,
                      <<"High Risk", "risk-high", 2>>}
            /\ (r[1] = "Low Risk") <=> (p < 222)
            /\ (r[1] = "Medium Risk") <=> (222 <= p /\ p <= 640)
            /\ (r[1] = "High Risk") <=> (p > 640)

\* The lower cut point itself has been mapped, to Medium.
C1_Witness ==
    /\ Returned("get_risk_level")
    /\ call.arg = 222
    /\ result.value = <<"Medium Risk", "risk-medium", 1>>

\* C2: for every probability outside [0,1], get_risk_level fails with
\* InvalidProbability and returns no tier.
C2_InvalidProbabilityRaised ==
    (call.fn = "get_risk_level" /\ ~Pending
        /\ (call.arg < 0 \/ call.arg > 1000)) =>
        result.status = "raised"

-----------------------------------------------------------------------------
(* Properties of the normalcy checker (FnSpec) *)

\* C5: each of the four parameters is flagged abnormal iff its value is
\* below normal_min or above normal_max of PT(11.0,13.5), APTT(25.0,35.0),
\* D-Dimer(0.0,0.5), MPV(7.5,11.5); a value on a bound is normal.  The panel
\* {12.0, 30.0, 0.5, 10.0} is all normal, the demo panel all abnormal.
C5_Abnormal ==
    Returned("create_parameter_display") =>
        LET v == call.arg
            r == result.value
            Flag(p, lo, hi) == r[p].is_abnormal <=> (v[p] < lo \/ v[p] > hi)
        IN  /\ DOMAIN r = {"PT", "APTT", "D-Dimer", "MPV"}
            /\ Flag("PT", 110, 135)
            /\ Flag("APTT", 250, 350)
            /\ Flag("D-Dimer", 0, 5)
            /\ Flag("MPV", 75, 115)
            /\ (v["PT"] = 120 /\ v["APTT"] = 300 /\ v["D-Dimer"] = 5
                    /\ v["MPV"] = 100)
               => \A p \in DOMAIN r : ~r[p].is_abnormal
            /\ (v["PT"] = 185 /\ v["APTT"] = 550 /\ v["D-Dimer"] = 32
                    /\ v["MPV"] = 125)
               => \A p \in DOMAIN r : r[p].is_abnormal

\* A panel with PT and D-Dimer on their upper bounds has been checked, and
\* both are normal.
C5_Witness ==
    /\ Returned("create_parameter_display")
    /\ call.arg["PT"] = 135
    /\ call.arg["D-Dimer"] = 5
    /\ ~result.value["PT"].is_abnormal
    /\ ~result.value["D-Dimer"].is_abnormal

-----------------------------------------------------------------------------
(* Properties of the recommendation lookup on its own (FnSpec) *)

TierLabels == {"Low Risk", "Medium Risk", "High Risk"}

-----------------------------------------------------------------------------
(* Properties of the session (Spec, FairSpec) *)

\* The latest run found no model: load_model answered None.
ModelMissing == model_cache # None /\ model_cache[1].value = None

\* The latest run rendered a risk result.
Shown == display.result # None

\* The latest run called predict_proba, which did not yield a probability.
InferenceFailed ==
    /\ model_call # None
    /\ LET o == model_call[1].outcome
       IN  o.raises \/ Len(o.proba) < 1 \/ Len(o.proba[1]) < 2

\* The tier label of a probability, by the cut points of the specification.
TierOf(p) ==
    IF p < 222 THEN "Low Risk"
    ELSE IF p <= 640 THEN "Medium Risk"
    ELSE "High Risk"

\* C3: when the model fails to load, once the user has activated demo mode
\* a later run produces a tier and its recommendations for the demo panel,
\* without any error being raised.
C3_DemoProducesTier ==
    (ModelMissing /\ buttons.demo /\ session_state.input_values = DemoPanel)
    ~> (Shown /\ display.recs # None /\ display.exception = None
            /\ session_state.input_values = DemoPanel)

\* C4: a run whose predict_proba call fails reports an error and renders no
\* probability, tier, gauge, parameter analysis or recommendation; whenever
\* a tier is rendered, it is the tier of the probability the model returned
\* in the same run for the stored panel.
C4_NoDisplayOnFailure ==
    /\ InferenceFailed =>
         /\ display.result = None
         /\ display.recs = None
         /\ "Prediction error" \in display.errors
    /\ Shown =>
         /\ model_call # None
         /\ ~InferenceFailed
         /\ \A i \in 1..4 :
               model_call[1].input[i].values
                   = <<session_state.input_values[model_call[1].input[i].name]>>
         /\ display.result[1].probability = model_call[1].outcome.proba[1][2]
         /\ display.result[1].risk_level
                = TierOf(model_call[1].outcome.proba[1][2])

\* predict_proba has raised in the latest run, and nothing is rendered.
C4_Witness ==
    /\ model_call # None
    /\ model_call[1].outcome.raises
    /\ display.result = None
    /\ display.recs = None
    /\ display.errors = {"Prediction error"}

\* C6: each tier's bundle has a title and a non-empty list of
\* recommendations; only the bundle of High has an 'actions' list, which is
\* non-empty; the Immediate Considerations section is rendered iff the tier
\* is High.
C6_Bundles ==
    /\ \A l \in {"Low Risk", "Medium Risk", "High Risk"} :
          LET b == get_clinical_recommendations(l)
          IN  /\ "title" \in DOMAIN b
              /\ "recommendations" \in DOMAIN b
              /\ Len(b.recommendations) > 0
              /\ ("actions" \in DOMAIN b) <=> (l = "High Risk")
              /\ (l = "High Risk") => Len(b.actions) > 0
    /\ Shown =>
          /\ display.recs # None
          /\ Len(display.recs[1].recommendations) > 0
          /\ (display.recs[1].immediate # None)
                <=> (display.result[1].risk_idx = 2)
          /\ (display.recs[1].immediate # None)
                => Len(display.recs[1].immediate[1]) > 0

\* A High result is rendered with its Immediate Considerations.
C6_Witness ==
    /\ Shown
    /\ display.result[1].risk_level = "High Risk"
    /\ display.recs # None
    /\ display.recs[1].immediate # None
    /\ Len(display.recs[1].immediate[1]) = 5

\* C7: in every run that renders a result, the bundle rendered is the
\* non-empty bundle of the tier of the probability the model returned in
\* that run; when the model returns 0.75 for the demo panel, the tier is
\* High, the title is the High Risk title and the list has the
\* urgent-consultation item.
C7_EndToEnd ==
    Shown =>
        LET p    == model_call[1].outcome.proba[1][2]
            card == display.recs[1]
        IN  /\ display.recs # None
            /\ display.result[1].risk_level = TierOf(p)
            /\ card.title = recommendations[TierOf(p)].title
            /\ card.recommendations = recommendations[TierOf(p)].recommendations
            /\ Len(card.recommendations) > 0
            /\ (session_state.input_values = DemoPanel /\ p = 750) =>
                  /\ display.result[1].risk_level = "High Risk"
                  /\ display.result[1].risk_idx = 2
                  /\ card.title = "High Risk Clinical Recommendations"
                  /\ \E i \in 1..Len(card.recommendations) :
                        card.recommendations[i]
                            = "**Immediate Action: Urgent consultation required**"

\* The model has answered 0.75 for the demo panel's values.
C7_Witness ==
    /\ Shown
    /\ session_state.input_values = DemoPanel
    /\ model_call[1].outcome.proba[1][2] = 750
    /\ display.result[1].risk_level = "High Risk"
    /\ display.recs[1].title = "High Risk Clinical Recommendations"

\* C9: in every run that calls the model, predict_proba's input is one row
\* of exactly the four stored values, unmodified, in the order PT, APTT,
\* D-Dimer, MPV; the probability used for the tier is the one returned for
\* the positive class.
C9_ModelInput ==
    /\ model_call # None =>
          LET df == model_call[1].input
              iv == session_state.input_values
          IN  df = << [name |-> "PT",      values |-> <<iv["PT"]>>],
                      [name |-> "APTT",    values |-> <<iv["APTT"]>>],
                      [name |-> "D-Dimer", values |-> <<iv["D-Dimer"]>>],
                      [name |-> "MPV",     values |-> <<iv["MPV"]>>] >>
    /\ Shown =>
          /\ model_call # None
          /\ display.result[1].probability = model_call[1].outcome.proba[1][2]
          /\ display.result[1].gauge.score = model_call[1].outcome.proba[1][2]
          /\ display.result[1].risk_level
                = TierOf(model_call[1].outcome.proba[1][2])

\* The model has been called with a panel whose four values all differ from
\* the widgets' defaults, and has answered with unequal class probabilities.
C9_Witness ==
    /\ Shown
    /\ session_state.input_values = DemoPanel
    /\ model_call[1].input[2] = [name |-> "APTT", values |-> <<550>>]
    /\ model_call[1].outcome.proba[1][1] # model_call[1].outcome.proba[1][2]

\* C10: once the session has started, a run in which neither button is
\* clicked leaves the stored panel and prediction_made unchanged, and what
\* it renders is computed from the stored panel, not from the widgets;
\* prediction_made never returns to False.
C10_StoredPanelFrame ==
    [][Started =>
        /\ (~buttons'.calc /\ ~buttons'.demo) =>
              /\ session_state' = session_state
              /\ display'.result # None =>
                    /\ \A p \in DOMAIN session_state.input_values :
                          display'.result[1].params[p].value
                              = session_state.input_values[p]
                    /\ \A i \in 1..4 :
                          model_call'[1].input[i].values[1]
                              = session_state.input_values[Params[i]]
        /\ session_state.prediction_made => session_state'.prediction_made
      ]_vars

\* After an edit without a click, the result rendered is that of the stored
\* panel while the widgets hold other values.
C10_Witness ==
    /\ Started
    /\ ~buttons.calc /\ ~buttons.demo
    /\ session_state.prediction_made
    /\ Shown
    /\ widgets # session_state.input_values
    /\ \A p \in ParamSet :
          display.result[1].params[p].value = session_state.input_values[p]

\* C11: in every state of the session, if prediction_made is True then
\* input_values has exactly the keys PT, APTT, D-Dimer, MPV, and it is either
\* the demo panel or a panel of widget values (0 <= PT <= 100,
\* 0 <= APTT <= 200, 0 <= D-Dimer <= 50, 0 <= MPV <= 20); no run fails on a
\* missing key when it builds the model input.
C11_StoredPanelComplete ==
    /\ display.exception = None
    /\ (Started /\ session_state.prediction_made) =>
          LET iv == session_state.input_values
          IN  /\ DOMAIN iv = {"PT", "APTT", "D-Dimer", "MPV"}
              /\ \/ (iv["PT"] = 185 /\ iv["APTT"] = 550
                        /\ iv["D-Dimer"] = 32 /\ iv["MPV"] = 125)
                 \/ /\ 0 <= iv["PT"]      /\ iv["PT"] <= 1000
                    /\ 0 <= iv["APTT"]    /\ iv["APTT"] <= 2000
                    /\ 0 <= iv["D-Dimer"] /\ iv["D-Dimer"] <= 500
                    /\ 0 <= iv["MPV"]     /\ iv["MPV"] <= 200
              /\ model_call # None =>
                    /\ Len(model_call[1].input) = 4
                    /\ \A i \in 1..4 :
                          model_call[1].input[i].name \in DOMAIN iv

\* A panel submitted with Calculate has just been turned into the model's
\* input, all four columns present.
C11_Witness ==
    /\ Started
    /\ buttons.calc
    /\ session_state.prediction_made
    /\ DOMAIN session_state.input_values = ParamSet
    /\ session_state.input_values = widgets
    /\ model_call # None
    /\ Len(model_call[1].input) = 4
    /\ display.exception = None

=============================================================================
